---- MODULE Spec2Model ----
(***************************************************************************)
(* A model of the tic-tac-toe platform: the Board and the generic game     *)
(* loop of common.py, the move providers and game-mode drivers of play.py, *)
(* human_vs_*.py and rl_vs_tictoc.py, the Q-learning agent of rl_agent.py  *)
(* with its pickle files, and the minimax search engine of tictac.py.      *)
(*                                                                         *)
(* Python lists are modelled as functions over 0..8, so that every 1-based *)
(* / 0-based conversion of the source appears in the model as the same     *)
(* arithmetic.  A cell holds the string the source stores in it: "X", "O"  *)
(* or, for an empty cell of a Board, the digit str(i+1).                   *)
(***************************************************************************)
EXTENDS Integers, Sequences, FiniteSets, TLC

VARIABLES
    driver,          \* the caller of play_game (a game-mode driver, or a direct call)
    player1,         \* play_game's player1 argument: the X side's move provider
    player2,         \* play_game's player2 argument: the O side's move provider
    rl_observer,     \* whether play_game was given an rl_observer
    board,           \* Board.board of the board play_game works on
    current_player,  \* play_game's current_player
    moves_history,   \* play_game's moves_history
    move,            \* play_game's move: what the provider last returned
    attempt,         \* how the latest loop iteration of play_game ended
    game_state,      \* what play_game returned ("NONE" while it runs)
    learned,         \* the rl_observer.learn calls play_game has made, in order
    fresh,           \* whether this play_game call started on an all-empty board
    start,           \* the cells of the board when this play_game call started
    game,            \* TicTacToe.board of the search engine's game
    query,           \* the latest search-engine call and its arguments
    answer,          \* what that call returned, and the board it left behind
    q_table,         \* RLAgent.q_table
    lr,              \* RLAgent.lr
    gamma,           \* RLAgent.gamma
    epsilon,         \* RLAgent.epsilon
    save_counter,    \* RLAgent.save_counter
    files,           \* the pickle files of the working directory
    request,         \* the latest call of an RLAgent method and its arguments
    reply,           \* what that call returned
    calls,           \* how many steps the agent and its files have made
    observer,        \* the fields of a second RLAgent of the same process
    writer           \* for each file, the agent whose call wrote it last

vars == <<driver, player1, player2, rl_observer, board, current_player,
          moves_history, move, attempt, game_state, learned, fresh, start,
          game, query, answer,
          q_table, lr, gamma, epsilon, save_counter, files, request, reply,
          calls, observer, writer>>

gameVars == <<driver, player1, player2, rl_observer, board, current_player,
              moves_history, move, attempt, game_state, learned, fresh, start>>

engineVars == <<game, query, answer>>

agentVars == <<q_table, lr, gamma, epsilon, save_counter, files, request, reply,
               calls, observer, writer>>

-----------------------------------------------------------------------------
(* Values shared by both boards *)

Cells == 0..8

Marks == {"X", "O"}

\* str(i) for i in 1..9
DigitStr == <<"1", "2", "3", "4", "5", "6", "7", "8", "9">>

\* How far outside 1..9 the positions tried on Board.make_move range.
PosSlack == 1

Positions == (1 - PosSlack)..(9 + PosSlack)

\* Python's None
None == [kind |-> "None"]

\* An integer return value
Ret(n) == [kind |-> "int", val |-> n]

\* A call that raised an Exception
Raise(e) == [kind |-> "raise", exc |-> e]

Other(p) == IF p = "X" THEN "O" ELSE "X"

Count(b, m) == Cardinality({i \in Cells : b[i] = m})

-----------------------------------------------------------------------------
(* common.py: GameState and Board *)

ONGOING == "ONGOING"
X_WINS == "X_WINS"
O_WINS == "O_WINS"
DRAW == "DRAW"

\* Board.__init__
NewBoard == [i \in Cells |-> DigitStr[i + 1]]

\* Board.is_valid_move, position 0-based
is_valid_move(b, position) ==
    /\ 0 <= position
    /\ position < 9
    /\ b[position] \notin {"X", "O"}

\* Board.make_move without the conversion to a 0-based index
make_move_no_conversion(b, position, symbol) ==
    IF is_valid_move(b, position)
    THEN [ok |-> TRUE, board |-> [b EXCEPT ![position] = symbol]]
    ELSE [ok |-> FALSE, board |-> b]

\* Board.make_move, position 1-based: the returned flag and the board afterwards
make_move(b, position, symbol) ==
    LET pos0 == position - 1
    IN IF is_valid_move(b, pos0)
       THEN [ok |-> TRUE, board |-> [b EXCEPT ![pos0] = symbol]]
       ELSE [ok |-> FALSE, board |-> b]

\* Board.get_valid_moves: the 1-based positions, ascending
get_valid_moves(b) == {i + 1 : i \in {j \in Cells : b[j] \notin {"X", "O"}}}

\* Board.check_winner's lines with the first row forgotten
lines_without_a_row ==
    << <<3, 4, 5>>, <<6, 7, 8>>,
       <<0, 3, 6>>, <<1, 4, 7>>, <<2, 5, 8>>,
       <<0, 4, 8>>, <<2, 4, 6>> >>

\* Board.check_winner's lines, in the order it scans them
lines == << <<0, 1, 2>>, <<3, 4, 5>>, <<6, 7, 8>>,
            <<0, 3, 6>>, <<1, 4, 7>>, <<2, 5, 8>>,
            <<0, 4, 8>>, <<2, 4, 6>> >>

\* The for loop of Board.check_winner from line k on: the first line of three
\* equal cells that hold X or O decides; a line of three equal cells holding
\* anything else is passed over.
RECURSIVE ScanLines(_, _)
ScanLines(b, k) ==
    IF k > Len(lines) THEN "NO_LINE"
    ELSE LET line == lines[k]
         IN IF b[line[1]] = b[line[2]] /\ b[line[2]] = b[line[3]]
            THEN IF b[line[1]] = "X" THEN X_WINS
                 ELSE IF b[line[1]] = "O" THEN O_WINS
                 ELSE ScanLines(b, k + 1)
            ELSE ScanLines(b, k + 1)

\* Board.check_winner with the full-board test made before the scan of the lines
check_winner_draw_first(b) ==
    IF \A i \in Cells : b[i] \in {"X", "O"} THEN DRAW
    ELSE IF ScanLines(b, 1) # "NO_LINE" THEN ScanLines(b, 1)
    ELSE ONGOING

\* Board.check_winner
check_winner(b) ==
    LET hit == ScanLines(b, 1)
    IN IF hit # "NO_LINE" THEN hit
       ELSE IF \A i \in Cells : b[i] \in {"X", "O"} THEN DRAW
       ELSE ONGOING

\* Board.get_state_key: ''.join(self.board).  Every cell is a one-character
\* string, so the key is the string whose i-th character is cell i; it is
\* modelled as the sequence of its 9 characters.
get_state_key(b) == [i \in 1..9 |-> b[i - 1]]

-----------------------------------------------------------------------------
(* The move providers.  Each is modelled by the set of outcomes a call on   *)
(* board b can have: Ret(n), None or Raise(e).  A call that never returns   *)
(* (a human who has no valid move left to enter) has no outcome.            *)

\* common.get_human_move: loops until the input is one of the valid moves.
\* Entering 'z' ends the process: the run stops there.
get_human_move(b) == {Ret(m) : m \in get_valid_moves(b)}

\* The attributes of class TicTacToe (tictac.py)
TicTacToeAttrs ==
    {"board", "winning_combinations", "position_weights", "make_move",
     "is_valid_move", "get_valid_moves", "is_winner", "is_board_full",
     "evaluate_position", "get_winning_move", "minimax", "get_ai_move",
     "display_board"}

\* Looking up an attribute of a TicTacToe object
AttributeError(name) ==
    IF name \in TicTacToeAttrs THEN {} ELSE {Raise("AttributeError")}

\* play.get_tictoc_move: tictoc.get_best_move(board_2d) is the first thing
\* it does with the engine, and the lookup of get_best_move fails.
play_get_tictoc_move(b) == AttributeError("get_best_move")

\* human_vs_tictoc.get_tictoc_move: the same code as play.get_tictoc_move
human_vs_tictoc_get_tictoc_move(b) == AttributeError("get_best_move")

\* RLAgent.choose_action(board): random.choice over the valid moves, or over
\* the best of them by a Q-table whose content the game loop does not fix;
\* random.choice of an empty list raises IndexError.
choose_action(b) ==
    IF get_valid_moves(b) = {} THEN {Raise("IndexError")}
    ELSE {Ret(m) : m \in get_valid_moves(b)}

\* train_agent.train_agent: the first episode calls game.get_state_key() on
\* a TicTacToe.
train_agent == AttributeError("get_state_key")

\* play.get_rl_move: trains when trained_agent.pkl is missing, then asks a
\* newly loaded agent.
play_get_rl_move(b, exists) ==
    IF ~exists /\ train_agent # {} THEN train_agent ELSE choose_action(b)

\* human_vs_rl.get_rl_move: indexes the integer that choose_action returned
\* (action[0]), a TypeError.
human_vs_rl_get_rl_move(b) ==
    {IF r.kind = "int" THEN Raise("TypeError") ELSE r : r \in choose_action(b)}

\* rl_vs_tictoc.get_rl_move: choose_action's integer is no tuple and is
\* returned as it is.
rl_vs_tictoc_get_rl_move(b) == choose_action(b)

\* rl_vs_tictoc.get_tictoc_move: None on a board with no empty cell; else
\* the engine call fails inside the try, the exception is caught and a random
\* valid move is returned.
rl_vs_tictoc_get_tictoc_move(b) ==
    LET tictoc_board == [i \in Cells |-> IF b[i] \in {"X", "O"} THEN b[i] ELSE "None"]
        valid_moves == {i \in Cells : tictoc_board[i] \notin {"X", "O"}}
    IN IF valid_moves = {} THEN {None}
       ELSE IF AttributeError("get_best_move") # {}
            THEN IF get_valid_moves(b) # {}
                 THEN {Ret(m) : m \in get_valid_moves(b)}
                 ELSE {None}
            ELSE {}

\* A provider about which nothing is known: it may return None, any integer
\* (in range or not, pointing at an empty or an occupied cell), something
\* that int() rejects, or raise.
arbitrary(b) ==
    {None, Raise("Exception"), [kind |-> "str", val |-> "z"]}
        \cup {Ret(n) : n \in Positions}

Shipped ==
    {"get_human_move", "play.get_tictoc_move", "play.get_rl_move",
     "human_vs_tictoc.get_tictoc_move", "human_vs_rl.get_rl_move",
     "rl_vs_tictoc.get_rl_move", "rl_vs_tictoc.get_tictoc_move"}

\* player1(board) / player2(board) in play_game.  The game modes of play.py
\* that use play.get_rl_move start a game only once trained_agent.pkl exists.
Call(p, b) ==
    CASE p = "get_human_move" -> get_human_move(b)
      [] p = "play.get_tictoc_move" -> play_get_tictoc_move(b)
      [] p = "play.get_rl_move" -> play_get_rl_move(b, TRUE)
      [] p = "human_vs_tictoc.get_tictoc_move" -> human_vs_tictoc_get_tictoc_move(b)
      [] p = "human_vs_rl.get_rl_move" -> human_vs_rl_get_rl_move(b)
      [] p = "rl_vs_tictoc.get_rl_move" -> rl_vs_tictoc_get_rl_move(b)
      [] p = "rl_vs_tictoc.get_tictoc_move" -> rl_vs_tictoc_get_tictoc_move(b)
      [] p = "arbitrary" -> arbitrary(b)

-----------------------------------------------------------------------------
(* rl_agent.py: the Q-learning agent.  A Q-value is a Python float; floats  *)
(* are modelled as binary floating-point numbers with Precision significand *)
(* bits, rounded to nearest with ties to even, over a grid of 2^-FracBits:  *)
(* the integer n stands for n / 2^FracBits.                                 *)

\* Significand bits of the modelled floats
Precision == 3

\* Number of fractional bits of the modelled floats
FracBits == 4

\* The float 1.0
Unit == 2 ^ FracBits

\* Number of bits of the natural number n
BitLen(n) == CHOOSE k \in 0..30 : n < 2 ^ k /\ (k = 0 \/ n >= 2 ^ (k - 1))

\* The multiple of step nearest to the natural number n, ties to the even one
RoundTo(n, step) ==
    LET q == n \div step
        r == n % step
    IN  IF 2 * r < step \/ (2 * r = step /\ q % 2 = 0)
        THEN q * step ELSE (q + 1) * step

\* The spacing of the floats around the natural number n, at least `least`
Ulp(n, least) ==
    IF BitLen(n) > Precision /\ 2 ^ (BitLen(n) - Precision) > least
    THEN 2 ^ (BitLen(n) - Precision) ELSE least

\* The float nearest to the exact value n
FRound(n) ==
    IF n < 0 THEN 0 - RoundTo(0 - n, Ulp(0 - n, 1)) ELSE RoundTo(n, Ulp(n, 1))

\* Float addition, subtraction and multiplication: the exact result, rounded
FAdd(a, b) == FRound(a + b)
FSub(a, b) == FRound(a - b)
FMul(a, b) ==
    LET p == IF a * b < 0 THEN 0 - a * b ELSE a * b
        m == RoundTo(p, Ulp(p, Unit)) \div Unit
    IN  IF a * b < 0 THEN 0 - m ELSE m

\* The floats between -2.0 and 2.0
Floats == {FRound(n) : n \in (0 - 2 * Unit)..(2 * Unit)}

\* The float that the literal num/den denotes: the nearest one
Float(num, den) ==
    LET Dist(x) == IF x * den >= num * Unit
                   THEN x * den - num * Unit ELSE num * Unit - x * den
    IN  CHOOSE x \in Floats : \A y \in Floats : Dist(x) <= Dist(y)

\* defaultdict(float) with nothing in it
EmptyTable == << >>

\* The key (state, action) of the Q-table
StateAction(state, action) == <<state, action>>

\* self.q_table[key]: the value read ...
Get(q, key) == IF key \in DOMAIN q THEN q[key] ELSE 0

\* ... and the table after the read: a defaultdict inserts the missing key
Touch(q, key) ==
    IF key \in DOMAIN q THEN q
    ELSE [k \in DOMAIN q \cup {key} |-> IF k = key THEN 0 ELSE q[k]]

\* self.q_table[key] = value
Put(q, key, value) ==
    [k \in DOMAIN q \cup {key} |-> IF k = key THEN value ELSE q[k]]

\* The loop of get_best_action over valid_moves, which Board.get_valid_moves
\* lists in ascending order; st holds best_value, best_actions and the
\* table.  best_value starts at float('-inf'), modelled by None.
RECURSIVE BestLoop(_, _, _, _)
BestLoop(st, b, state, m) ==
    IF m > 9 THEN st
    ELSE IF m \notin get_valid_moves(b) THEN BestLoop(st, b, state, m + 1)
    ELSE LET state_action == StateAction(state, m - 1)
             value == Get(st.q_table, state_action)
             q == Touch(st.q_table, state_action)
         IN  BestLoop(
                 IF st.best_value = None \/ value > st.best_value.val
                 THEN [best_value |-> Ret(value), best_actions |-> <<m>>,
                       q_table |-> q]
                 ELSE IF value = st.best_value.val
                 THEN [st EXCEPT !.best_actions = Append(@, m), !.q_table = q]
                 ELSE [st EXCEPT !.q_table = q],
                 b, state, m + 1)

\* The elements of a list
Range(s) == {s[i] : i \in DOMAIN s}

\* random.choice(list): one of the elements, IndexError when there is none
random_choice(S) == IF S = {} THEN {Raise("IndexError")} ELSE {Ret(m) : m \in S}

\* RLAgent.get_best_action returning the first of the best actions
get_best_action_first(q, b) ==
    LET st == BestLoop([best_value |-> None, best_actions |-> <<>>,
                        q_table |-> q], b, get_state_key(b), 1)
    IN  {[ret |-> r, q_table |-> st.q_table] :
            r \in random_choice(IF st.best_actions # <<>>
                                THEN {st.best_actions[1]}
                                ELSE get_valid_moves(b))}

\* RLAgent.get_best_action(board, valid_moves): the outcomes of the call,
\* each with the table it leaves
get_best_action(q, b) ==
    LET st == BestLoop([best_value |-> None, best_actions |-> <<>>,
                        q_table |-> q], b, get_state_key(b), 1)
    IN  {[ret |-> r, q_table |-> st.q_table] :
            r \in random_choice(IF st.best_actions # <<>>
                                THEN Range(st.best_actions)
                                ELSE get_valid_moves(b))}

\* RLAgent.choose_action(board): random.random() lies in [0, 1), so the
\* exploring branch can be taken when epsilon > 0 and the exploiting one
\* when epsilon < 1.
RLAgent_choose_action(q, eps, b) ==
    {[ret |-> r, q_table |-> q] :
        r \in IF eps > 0 THEN random_choice(get_valid_moves(b)) ELSE {}}
    \cup (IF eps < Unit THEN get_best_action(q, b) ELSE {})

\* The number of learn calls between two automatic saves
SaveEvery == 5000

\* The file that load_q_table and save_q_table use by default
DefaultTableFile == "q_table.pkl"

\* The file that save and load use by default
DefaultAgentFile == "trained_agent.pkl"

\* What a file of the working directory can hold: nothing (no such file),
\* bytes that pickle.load rejects, a pickled Q-table, a pickled agent state
Missing == [kind |-> "missing"]
Malformed == [kind |-> "malformed"]
TablePickle(q) == [kind |-> "table", q_table |-> q]
StatePickle(q, l, g, e) ==
    [kind |-> "state", q_table |-> q, lr |-> l, gamma |-> g, epsilon |-> e]

\* RLAgent.save_q_table(filename): the files after the call
save_q_table(q, fs, filename) == [fs EXCEPT ![filename] = TablePickle(q)]

\* A string key of the dict that save pickles
StrKey(name) == <<name>>

\* defaultdict(float, state): the dict that save pickles, taken as a table
StateAsTable(p) ==
    [k \in {StrKey("q_table"), StrKey("lr"), StrKey("gamma"), StrKey("epsilon")} |->
        IF k = StrKey("q_table") THEN p.q_table
        ELSE IF k = StrKey("lr") THEN p.lr
        ELSE IF k = StrKey("gamma") THEN p.gamma
        ELSE p.epsilon]

\* RLAgent.load_q_table(filename): the table after the call
load_q_table(fs, filename) ==
    IF fs[filename].kind = "table" THEN fs[filename].q_table
    ELSE IF fs[filename].kind = "state" THEN StateAsTable(fs[filename])
    ELSE EmptyTable

\* The continuation value of learn: the best value of next_state over the
\* positions i with next_state[i] == ' ', 0 when there is none
NextMax(q, next_state) ==
    LET empty_positions == {i \in 0..8 : next_state[i + 1] = " "}
        next_values == {Get(q, StateAction(next_state, i)) : i \in empty_positions}
    IN  IF empty_positions = {} THEN 0
        ELSE CHOOSE v \in next_values : \A w \in next_values : w <= v

\* The table after learn has read the values of next_state
NextTouched(q, next_state) ==
    LET empty_positions == {i \in 0..8 : next_state[i + 1] = " "}
    IN  [k \in DOMAIN q \cup {StateAction(next_state, i) : i \in empty_positions} |->
            IF k \in DOMAIN q THEN q[k] ELSE 0]

\* new_q of learn
NewQ(q, l, g, state, action, reward, next_state, done) ==
    LET current_q == Get(q, StateAction(state, action))
    IN  IF done
        THEN FAdd(current_q, FMul(l, FSub(reward, current_q)))
        ELSE FAdd(current_q,
                  FMul(l, FSub(FAdd(reward, FMul(g, NextMax(q, next_state))),
                               current_q)))

\* RLAgent.learn with the test `save_counter > 5000`
learn_saves_late(q, l, g, counter, fs, state, action, reward, next_state, done) ==
    LET touched == IF done THEN q ELSE NextTouched(q, next_state)
        table == Put(touched, StateAction(state, action),
                     NewQ(q, l, g, state, action, reward, next_state, done))
    IN  IF counter + 1 > SaveEvery
        THEN [q_table |-> table, save_counter |-> 0,
              files |-> save_q_table(table, fs, DefaultTableFile)]
        ELSE [q_table |-> table, save_counter |-> counter + 1, files |-> fs]

\* RLAgent.learn(state, action, reward, next_state, done): the table, the
\* counter and the files after the call
learn(q, l, g, counter, fs, state, action, reward, next_state, done) ==
    LET touched == IF done THEN q ELSE NextTouched(q, next_state)
        table == Put(touched, StateAction(state, action),
                     NewQ(q, l, g, state, action, reward, next_state, done))
    IN  IF counter + 1 >= SaveEvery
        THEN [q_table |-> table, save_counter |-> 0,
              files |-> save_q_table(table, fs, DefaultTableFile)]
        ELSE [q_table |-> table, save_counter |-> counter + 1, files |-> fs]

\* RLAgent.save(filename): the state is written to filename, then the table
\* to the default table file
save(q, l, g, e, fs, filename) ==
    save_q_table(q, [fs EXCEPT ![filename] = StatePickle(q, l, g, e)],
                 DefaultTableFile)

\* RLAgent.load(filename): the table and the hyperparameters after the call.
\* A missing or rejected file raises before anything is assigned.  A pickled
\* table is a defaultdict(float): state[name] of a name it does not hold is
\* 0.0, so the four assignments are made, and len(self.q_table) of a float
\* raises.  Every exception ends in load_q_table().
load(q, l, g, e, fs, filename) ==
    IF fs[filename].kind = "state"
    THEN [q_table |-> fs[filename].q_table, lr |-> fs[filename].lr,
          gamma |-> fs[filename].gamma, epsilon |-> fs[filename].epsilon]
    ELSE IF fs[filename].kind = "table"
    THEN LET state == fs[filename].q_table
         IN  [q_table |-> IF StrKey("q_table") \in DOMAIN state
                          THEN state[StrKey("q_table")]
                          ELSE load_q_table(fs, DefaultTableFile),
              lr |-> Get(state, StrKey("lr")),
              gamma |-> Get(state, StrKey("gamma")),
              epsilon |-> Get(state, StrKey("epsilon"))]
    ELSE [q_table |-> load_q_table(fs, DefaultTableFile),
          lr |-> l, gamma |-> g, epsilon |-> e]

\* RLAgent(learning_rate, discount_factor, epsilon): the new agent
RLAgent(l, g, e, fs) ==
    [q_table |-> load_q_table(fs, DefaultTableFile),
     lr |-> l, gamma |-> g, epsilon |-> e, save_counter |-> 0]

\* The agent at work: one RLAgent in a working directory, called with the
\* boards, transitions and files below.

\* Boards that choose_action is asked about: three cells left, two cells
\* left, none left
ThreeLeft ==
    [NewBoard EXCEPT ![0] = "X", ![1] = "O", ![2] = "X", ![3] = "O",
                     ![4] = "X", ![5] = "O"]
TwoLeft == [ThreeLeft EXCEPT ![7] = "X"]
NoneLeft ==
    [i \in Cells |-> <<"X", "O", "X", "X", "O", "O", "O", "X", "X">>[i + 1]]
AgentBoards == {ThreeLeft, TwoLeft, NoneLeft}

\* The moves that learn is called about: a board and a 0-based cell that is
\* empty on it
LearnMoves == {<<ThreeLeft, 6>>, <<ThreeLeft, 7>>, <<TwoLeft, 6>>}

\* The boards whose state key is learn's next_state
NextBoards == {TwoLeft}

\* The rewards that learn is called with: a draw's and a win's of play_game,
\* and two more
Rewards == {0, Unit, Float(1, 5), Float(7, 8)}

\* The hyperparameters an agent is constructed with: the defaults of
\* __init__, and a greedy agent that takes over every new estimate
HyperChoices ==
    {[lr |-> Float(1, 10), gamma |-> Float(19, 20), epsilon |-> Float(1, 10)],
     [lr |-> Unit, gamma |-> Float(1, 2), epsilon |-> 0]}

\* The files of the working directory
FileNames == {DefaultTableFile, DefaultAgentFile}

\* Number of steps of the agent and its files that are followed
MaxCalls == 3

\* One more step is followed
Step == calls < MaxCalls /\ calls' = calls + 1 /\ UNCHANGED <<observer, writer>>

\* agent = RLAgent(...)
Construct ==
    /\ Step
    /\ \E h \in HyperChoices :
        LET a == RLAgent(h.lr, h.gamma, h.epsilon, files)
        IN  /\ q_table' = a.q_table
            /\ lr' = a.lr
            /\ gamma' = a.gamma
            /\ epsilon' = a.epsilon
            /\ save_counter' = a.save_counter
            /\ request' = [op |-> "RLAgent"]
            /\ reply' = None
            /\ UNCHANGED files

\* agent.choose_action(board)
ChooseAction ==
    /\ Step
    /\ \E b \in AgentBoards :
        \E o \in RLAgent_choose_action(q_table, epsilon, b) :
            /\ q_table' = o.q_table
            /\ request' = [op |-> "choose_action", board |-> b]
            /\ reply' = o.ret
            /\ UNCHANGED <<lr, gamma, epsilon, save_counter, files>>

\* agent.learn(state, action, reward, next_state, done)
Learn ==
    /\ Step
    /\ \E mv \in LearnMoves, reward \in Rewards, nb \in NextBoards,
          done \in BOOLEAN :
          LET state == get_state_key(mv[1])
              action == mv[2]
              next_state == get_state_key(nb)
              a == learn(q_table, lr, gamma, save_counter, files,
                         state, action, reward, next_state, done)
          IN  /\ q_table' = a.q_table
              /\ save_counter' = a.save_counter
              /\ files' = a.files
              /\ request' = [op |-> "learn", state |-> state, action |-> action,
                             reward |-> reward, next_state |-> next_state,
                             done |-> done]
              /\ reply' = None
              /\ UNCHANGED <<lr, gamma, epsilon>>

\* agent.save(filename)
Save ==
    /\ Step
    /\ \E filename \in FileNames :
        /\ files' = save(q_table, lr, gamma, epsilon, files, filename)
        /\ request' = [op |-> "save", filename |-> filename]
        /\ reply' = None
        /\ UNCHANGED <<q_table, lr, gamma, epsilon, save_counter>>

\* agent.save_q_table()
SaveQTable ==
    /\ Step
    /\ files' = save_q_table(q_table, files, DefaultTableFile)
    /\ request' = [op |-> "save_q_table", filename |-> DefaultTableFile]
    /\ reply' = None
    /\ UNCHANGED <<q_table, lr, gamma, epsilon, save_counter>>

\* agent.load(filename)
Load ==
    /\ Step
    /\ \E filename \in FileNames :
        LET a == load(q_table, lr, gamma, epsilon, files, filename)
        IN  /\ q_table' = a.q_table
            /\ lr' = a.lr
            /\ gamma' = a.gamma
            /\ epsilon' = a.epsilon
            /\ request' = [op |-> "load", filename |-> filename]
            /\ reply' = None
            /\ UNCHANGED <<save_counter, files>>

\* agent.load_q_table(filename)
LoadQTable ==
    /\ Step
    /\ \E filename \in FileNames :
        /\ q_table' = load_q_table(files, filename)
        /\ request' = [op |-> "load_q_table", filename |-> filename]
        /\ reply' = None
        /\ UNCHANGED <<lr, gamma, epsilon, save_counter, files>>

\* Something other than the agent removes a file, or leaves bytes in it
\* that pickle.load rejects
Damage ==
    /\ Step
    /\ \E filename \in FileNames, content \in {Missing, Malformed} :
        /\ files[filename] # content
        /\ files' = [files EXCEPT ![filename] = content]
        /\ request' = [op |-> "none"]
        /\ reply' = None
        /\ UNCHANGED <<q_table, lr, gamma, epsilon, save_counter>>

\* The agent's variables when no agent is at work
AgentIdle ==
    /\ q_table = EmptyTable
    /\ lr = 0
    /\ gamma = 0
    /\ epsilon = 0
    /\ save_counter = 0
    /\ files = [f \in FileNames |-> Missing]
    /\ request = [op |-> "none"]
    /\ reply = None
    /\ calls = 0
    /\ observer = None
    /\ writer = None

-----------------------------------------------------------------------------
(* common.play_game and its callers *)

\* The reward play_game computes from a terminal game_state
Reward(gs) == IF gs = DRAW THEN 0 ELSE 1

\* The calls of the loop with those about the moves of the side that moved
\* last, and no others
LearnCalls_of_last_mover(history, reward, b) ==
    LET mine == {i \in 1..Len(history) : (Len(history) - i) % 2 = 0}
    IN  [k \in 1..Cardinality(mine) |->
            [state |-> history[Len(history) - 2 * (Cardinality(mine) - k)][1],
             action |-> history[Len(history) - 2 * (Cardinality(mine) - k)][2],
             reward |-> reward, next_state |-> get_state_key(b), done |-> TRUE]]

\* The calls of the loop `for state, action in moves_history:
\* rl_observer.learn(state, action, reward, board.get_state_key(), True)`
LearnCalls(history, reward, b) ==
    [i \in 1..Len(history) |->
        [state |-> history[i][1], action |-> history[i][2], reward |-> reward,
         next_state |-> get_state_key(b), done |-> TRUE]]

\* The switch of players that leaves the player in place
SwitchPlayers_stays(cp) == cp

\* current_player = 'O' if current_player == 'X' else 'X'
SwitchPlayers(cp) == IF cp = "X" THEN "O" ELSE "X"

\* The entry of moves_history with the move as the provider returned it
Record_one_based(history, b, m) == Append(history, <<get_state_key(b), m>>)

\* moves_history.append((board.get_state_key(), int(move)-1)), done after
\* board.make_move has placed the marker on b
Record(history, b, m) == Append(history, <<get_state_key(b), m - 1>>)

\* How many applied moves a directly called, observed play_game with
\* arbitrary providers is followed for (a provider may end the process).
MaxObserved == 3

\* The drivers that create one Board before their loop and pass it to every
\* play_game call (play.py), and those that make a new one for each call.
ReusesBoard ==
    {"play.human_vs_human", "play.human_vs_rl", "play.human_vs_tictoc"}

\* The providers a driver passes to its next play_game call; prev is player1
\* of the call before ("" for the first call).
Providers(d, prev) ==
    CASE d = "play.human_vs_human" -> {<<"get_human_move", "get_human_move">>}
      [] d = "play.human_vs_rl" ->
            {<<"get_human_move", "play.get_rl_move">>,
             <<"play.get_rl_move", "get_human_move">>}
      [] d = "play.human_vs_tictoc" -> {<<"get_human_move", "play.get_tictoc_move">>}
      [] d = "play.rl_vs_tictoc" ->
            IF prev = "play.get_rl_move"
            THEN {<<"play.get_tictoc_move", "play.get_rl_move">>}
            ELSE {<<"play.get_rl_move", "play.get_tictoc_move">>}
      [] d = "human_vs_human.main" -> {<<"get_human_move", "get_human_move">>}
      [] d = "human_vs_rl.main" -> {<<"get_human_move", "human_vs_rl.get_rl_move">>}
      [] d = "human_vs_tictoc.main" ->
            {<<"get_human_move", "human_vs_tictoc.get_tictoc_move">>}
      [] d = "rl_vs_tictoc.play_tournament" ->
            {<<"rl_vs_tictoc.get_rl_move", "rl_vs_tictoc.get_tictoc_move">>}
            \cup (IF prev = "rl_vs_tictoc.get_rl_move"
                  THEN {<<"rl_vs_tictoc.get_tictoc_move", "rl_vs_tictoc.get_rl_move">>}
                  ELSE {})

\* Whether a driver passes an rl_observer to play_game
Observed(d) ==
    d \in {"play.human_vs_human", "play.human_vs_tictoc", "human_vs_human.main",
           "human_vs_rl.main", "human_vs_tictoc.main",
           "rl_vs_tictoc.play_tournament"}

\* The game modes of play.py's menu.  Each of the two that use the RL agent
\* trains one before its first play_game call when trained_agent.pkl is
\* missing, and that call of train_agent raises: play_game is reached only
\* with the file present.
PlayDrivers ==
    {"play.human_vs_human", "play.human_vs_rl", "play.human_vs_tictoc",
     "play.rl_vs_tictoc"}

\* The stand-alone scripts
ScriptDrivers ==
    {"human_vs_human.main", "human_vs_rl.main", "human_vs_tictoc.main",
     "rl_vs_tictoc.play_tournament"}

\* play_game called directly on a new Board with providers about which
\* nothing is known, without and with an observer.
DirectCalls ==
    {[player1 |-> "arbitrary", player2 |-> "arbitrary", rl_observer |-> FALSE],
     [player1 |-> "arbitrary", player2 |-> "arbitrary", rl_observer |-> TRUE]}

\* The providers are asked for a move while play_game runs
Running ==
    /\ game_state = "NONE"
    /\ (driver = "direct" /\ rl_observer) => Len(moves_history) < MaxObserved

\* One iteration of play_game's while loop where the provider's call raises:
\* the except clause reports it and continues.
ProviderRaises ==
    /\ Running
    /\ \E r \in Call(IF current_player = "X" THEN player1 ELSE player2,
                      board) :
          /\ r.kind = "raise"
          /\ attempt' = "error"
    /\ UNCHANGED <<driver, player1, player2, rl_observer, board, current_player,
                   moves_history, move, game_state, learned, fresh, start>>

\* The iteration of an invalid move with the switch of players made before
\* the loop continues
InvalidMoveSwitches ==
    /\ Running
    /\ \E r \in Call(IF current_player = "X" THEN player1 ELSE player2,
                      board) :
          /\ r.kind \in {"None", "str"} \/ ~make_move(board, r.val, current_player).ok
          /\ r.kind # "raise"
          /\ move' = r
          /\ attempt' = "invalid"
    /\ current_player' = SwitchPlayers(current_player)
    /\ UNCHANGED <<driver, player1, player2, rl_observer, board, moves_history,
                   game_state, learned, fresh, start>>

\* One iteration where the provider returns None, something int() rejects
\* (the ValueError is caught by the except clause), or a position that
\* board.make_move refuses.
InvalidMove ==
    /\ Running
    /\ \E r \in Call(IF current_player = "X" THEN player1 ELSE player2,
                      board) :
          /\ r.kind # "raise"
          /\ move' = r
          /\ \/ r.kind = "None" /\ attempt' = "invalid" /\ board' = board
             \/ r.kind = "str" /\ attempt' = "error" /\ board' = board
             \/ /\ r.kind = "int"
                /\ ~make_move(board, r.val, current_player).ok
                /\ board' = make_move(board, r.val, current_player).board
                /\ attempt' = "invalid"
    /\ UNCHANGED <<driver, player1, player2, rl_observer, current_player,
                   moves_history, game_state, learned, fresh, start>>

\* One iteration where the move is applied: it is recorded for the observer,
\* the outcome is checked, and play_game either teaches the observer and
\* returns, or switches players.
ApplyMove ==
    /\ Running
    /\ \E r \in Call(IF current_player = "X" THEN player1 ELSE player2,
                      board) :
          /\ r.kind = "int"
          /\ make_move(board, r.val, current_player).ok
          /\ move' = r
          /\ board' = make_move(board, r.val, current_player).board
          /\ moves_history' = IF rl_observer
                              THEN Record(moves_history, board', r.val)
                              ELSE moves_history
          /\ \/ /\ check_winner(board') # ONGOING
                /\ game_state' = check_winner(board')
                /\ learned' = IF rl_observer /\ moves_history' # <<>>
                              THEN LearnCalls(moves_history',
                                              Reward(game_state'), board')
                              ELSE learned
                /\ attempt' = "returned"
                /\ current_player' = current_player
             \/ /\ check_winner(board') = ONGOING
                /\ current_player' = SwitchPlayers(current_player)
                /\ attempt' = "applied"
                /\ UNCHANGED <<game_state, learned>>
    /\ UNCHANGED <<driver, player1, player2, rl_observer, fresh, start>>

\* The entry of play_game: current_player = 'X', moves_history = []
Entry(b) ==
    /\ board = b
    /\ current_player = "X"
    /\ moves_history = <<>>
    /\ move = None
    /\ attempt = "start"
    /\ game_state = "NONE"
    /\ learned = <<>>
    /\ fresh = (b = NewBoard)
    /\ start = b

\* The search engine's variables when no engine call has been made
EngineIdle ==
    /\ game = NewBoard
    /\ query = [op |-> "none"]
    /\ answer = [op |-> "none"]

\* A driver's first play_game call
DriverInit(ds) ==
    /\ driver \in ds
    /\ \E pp \in Providers(driver, "") : player1 = pp[1] /\ player2 = pp[2]
    /\ rl_observer = Observed(driver)

\* A direct call of play_game
DirectInit ==
    /\ driver = "direct"
    /\ \E c \in DirectCalls :
          /\ player1 = c.player1
          /\ player2 = c.player2
          /\ rl_observer = c.rl_observer

Init ==
    /\ DriverInit(PlayDrivers) \/ DirectInit
    /\ Entry(NewBoard)
    /\ EngineIdle
    /\ AgentIdle

InitScripts ==
    /\ DriverInit(ScriptDrivers)
    /\ Entry(NewBoard)
    /\ EngineIdle
    /\ AgentIdle

\* play_game has returned and the driver's loop calls it again ("play again",
\* or the next game of a tournament).
PlayAgain ==
    /\ game_state # "NONE"
    /\ driver # "direct"
    /\ \E pp \in Providers(driver, player1) : player1' = pp[1] /\ player2' = pp[2]
    /\ board' = IF driver \in ReusesBoard THEN board ELSE NewBoard
    /\ current_player' = "X"
    /\ moves_history' = <<>>
    /\ move' = None
    /\ attempt' = "start"
    /\ game_state' = "NONE"
    /\ learned' = <<>>
    /\ fresh' = (board' = NewBoard)
    /\ start' = board'
    /\ UNCHANGED <<driver, rl_observer>>

Next ==
    \/ (ProviderRaises /\ UNCHANGED <<engineVars, agentVars>>)
    \/ (InvalidMove /\ UNCHANGED <<engineVars, agentVars>>)
    \/ (ApplyMove /\ UNCHANGED <<engineVars, agentVars>>)
    \/ (PlayAgain /\ UNCHANGED <<engineVars, agentVars>>)

\* play.py's game modes and direct calls of play_game
Spec == Init /\ [][Next]_vars

\* The stand-alone scripts
SpecScripts == InitScripts /\ [][Next]_vars

\* Boards that play_game is handed through its board parameter
Midgame == [NewBoard EXCEPT ![0] = "X", ![1] = "O", ![2] = "X", ![3] = "X",
                            ![4] = "O", ![5] = "O"]
HandedBoards == {ThreeLeft, Midgame}

\* play_game(player1, player2, rl_observer, board) called with an observer
\* on a board of a game under way, the providers being arbitrary
InitObserved ==
    /\ driver = "direct.board"
    /\ player1 = "arbitrary"
    /\ player2 = "arbitrary"
    /\ rl_observer = TRUE
    /\ \E b \in HandedBoards : Entry(b)
    /\ EngineIdle
    /\ AgentIdle

NextObserved ==
    \/ (ProviderRaises /\ UNCHANGED <<engineVars, agentVars>>)
    \/ (InvalidMove /\ UNCHANGED <<engineVars, agentVars>>)
    \/ (ApplyMove /\ UNCHANGED <<engineVars, agentVars>>)

\* One observed play_game call, followed to its return
SpecObserved == InitObserved /\ [][NextObserved]_vars

\* The drivers whose games are played with a provider that is no human:
\* play.get_tictoc_move, play.get_rl_move and human_vs_rl.get_rl_move
ShippedDrivers ==
    {"play.human_vs_tictoc", "play.human_vs_rl", "play.rl_vs_tictoc",
     "human_vs_rl.main"}

\* The first play_game call of one of these drivers, on a new Board
InitShipped ==
    /\ DriverInit(ShippedDrivers)
    /\ Entry(NewBoard)
    /\ EngineIdle
    /\ AgentIdle

\* The iterations of play_game's while loop in that call.  None of these
\* providers returns a move that board.make_move refuses: an iteration
\* either applies a move or ends in the except clause.
NextShipped ==
    \/ (ProviderRaises /\ UNCHANGED <<engineVars, agentVars>>)
    \/ (ApplyMove /\ UNCHANGED <<engineVars, agentVars>>)

\* One play_game call with the shipped providers.  `while True` goes on with
\* its next iteration for as long as play_game has not returned: the loop's
\* steps are weakly fair.
SpecShipped == InitShipped /\ [][NextShipped]_vars /\ WF_vars(NextShipped)

-----------------------------------------------------------------------------
(* tictac.py: the search engine.  Its methods work on self.board in place; *)
(* each is modelled by an operator that takes the board and returns its    *)
(* result together with the board as the call leaves it.                   *)

\* TicTacToe.winning_combinations
winning_combinations ==
    << <<0, 1, 2>>, <<3, 4, 5>>, <<6, 7, 8>>,
       <<0, 3, 6>>, <<1, 4, 7>>, <<2, 5, 8>>,
       <<0, 4, 8>>, <<2, 4, 6>> >>

\* Weights that put the edges above the centre and the corners
position_weights_edges == [i \in Cells |-> <<2, 4, 2, 4, 3, 4, 2, 4, 2>>[i + 1]]

\* TicTacToe.position_weights, for the cells 0..8
position_weights == [i \in Cells |-> <<3, 2, 3, 2, 4, 2, 3, 2, 3>>[i + 1]]

\* The depth get_ai_move searches to
SearchDepth == 6

\* Stands for float('inf'): above every score, which is at most 100 + depth
Infinity == 1000

Max(a, b) == IF a >= b THEN a ELSE b

Min(a, b) == IF a <= b THEN a ELSE b

\* TicTacToe.is_valid_move, position 0-based
TicTacToe_is_valid_move(b, position) ==
    /\ 0 <= position
    /\ position <= 8
    /\ b[position] \notin {"X", "O"}

\* TicTacToe.make_move, position 0-based
TicTacToe_make_move(b, position, player) ==
    IF TicTacToe_is_valid_move(b, position)
    THEN [ok |-> TRUE, board |-> [b EXCEPT ![position] = player]]
    ELSE [ok |-> FALSE, board |-> b]

\* TicTacToe.get_valid_moves: the 0-based positions, ascending
TicTacToe_get_valid_moves(b) ==
    SelectSeq(<<0, 1, 2, 3, 4, 5, 6, 7, 8>>, LAMBDA i : b[i] \notin {"X", "O"})

\* TicTacToe.is_winner
is_winner(b, player) ==
    \E k \in 1..Len(winning_combinations) :
        \A j \in 1..3 : b[winning_combinations[k][j]] = player

\* TicTacToe.is_board_full with any() in the place of all()
is_board_full_any(b) == \E i \in Cells : b[i] \in {"X", "O"}

\* TicTacToe.is_board_full
is_board_full(b) == \A i \in Cells : b[i] \in {"X", "O"}

\* What cell i adds to the score of TicTacToe.evaluate_position
Weighted(b, i) ==
    IF b[i] = "O" THEN position_weights[i]
    ELSE IF b[i] = "X" THEN 0 - position_weights[i]
    ELSE 0

\* The score TicTacToe.evaluate_position sums up over the nine cells
WeightSum(b) ==
    ((Weighted(b, 0) + Weighted(b, 1)) + (Weighted(b, 2) + Weighted(b, 3)))
    + ((Weighted(b, 4) + Weighted(b, 5)) + (Weighted(b, 6) + Weighted(b, 7)))
    + Weighted(b, 8)

\* TicTacToe.evaluate_position
evaluate_position(b, depth) ==
    IF is_winner(b, "O") THEN 100 + depth
    ELSE IF is_winner(b, "X") THEN (0 - 100) - depth
    ELSE IF is_board_full(b) THEN 0
    ELSE WeightSum(b)

\* The for loop of TicTacToe.get_winning_move from the k-th valid move on:
\* the trial marker is placed, tested and taken back.
RECURSIVE WinningMoveLoop(_, _, _, _)
WinningMoveLoop(b, player, moves, k) ==
    IF k > Len(moves) THEN [move |-> None, board |-> b]
    ELSE LET mv == moves[k]
             temp == b[mv]
             placed == [b EXCEPT ![mv] = player]
             restored == [placed EXCEPT ![mv] = temp]
         IN IF is_winner(placed, player)
            THEN [move |-> Ret(mv), board |-> restored]
            ELSE WinningMoveLoop(restored, player, moves, k + 1)

\* TicTacToe.get_winning_move trying every position, not the valid moves only
get_winning_move_any_cell(b, player) ==
    WinningMoveLoop(b, player, <<0, 1, 2, 3, 4, 5, 6, 7, 8>>, 1)

\* TicTacToe.get_winning_move
get_winning_move(b, player) ==
    WinningMoveLoop(b, player, TicTacToe_get_valid_moves(b), 1)

\* valid_moves.sort(key=position_weights, reverse=is_maximizing): the moves
\* by weight (2, 3 or 4), descending when reverse.  Python's sort is stable,
\* also with reverse: moves of equal weight keep their ascending order.
SortByWeight(moves, reverse) ==
    LET OfWeight(w) == SelectSeq(moves, LAMBDA m : position_weights[m] = w)
    IN IF reverse THEN OfWeight(4) \o OfWeight(3) \o OfWeight(2)
       ELSE OfWeight(2) \o OfWeight(3) \o OfWeight(4)

\* The one element of a one-element set.  A value that is used more than
\* once is bound by {e : x \in {value}}, so that it is computed once.
The(S) == CHOOSE x \in S : TRUE

RECURSIVE minimax(_, _, _, _, _)
RECURSIVE MaxLoop(_, _, _, _)
RECURSIVE MinLoop(_, _, _, _)

\* The locals of minimax while one of its for loops runs: the best score
\* (max_eval or min_eval) and best_move so far, the board, alpha, beta, and
\* whether the loop has left by its break.  The first three are what
\* minimax returns, with the board as the call leaves it.
LoopState(eval, best_move, b, alpha, beta, broke) ==
    [score |-> eval, move |-> best_move, board |-> b,
     alpha |-> alpha, beta |-> beta, broke |-> broke]

\* The body of the maximizing for loop that keeps the first move it tried
MaxStep_keeps_first(st, mv, sub) ==
    [score |-> IF sub.score > st.score THEN sub.score ELSE st.score,
     move |-> IF st.move = None THEN Ret(mv) ELSE st.move,
     board |-> [sub.board EXCEPT ![mv] = st.board[mv]],
     alpha |-> Max(st.alpha, sub.score),
     beta |-> st.beta,
     broke |-> st.beta <= Max(st.alpha, sub.score)]

\* The body of the maximizing for loop for move mv, after the recursive call
\* has returned sub: the trial marker is taken back, and the best score,
\* best_move and alpha are updated.
MaxStep(st, mv, sub) ==
    [score |-> IF sub.score > st.score THEN sub.score ELSE st.score,
     move |-> IF sub.score > st.score THEN Ret(mv) ELSE st.move,
     board |-> [sub.board EXCEPT ![mv] = st.board[mv]],
     alpha |-> Max(st.alpha, sub.score),
     beta |-> st.beta,
     broke |-> st.beta <= Max(st.alpha, sub.score)]

\* One pass of the maximizing for loop: the trial marker O is placed on mv
\* and minimax is called for the other side, one level down.
MaxTrial(st, depth, mv) ==
    MaxStep(st, mv, minimax([st.board EXCEPT ![mv] = "O"], depth - 1,
                            st.alpha, st.beta, FALSE))

\* The maximizing for loop of TicTacToe.minimax from the k-th move on
MaxLoop(st, depth, moves, k) ==
    IF k > Len(moves) \/ st.broke THEN st
    ELSE MaxLoop(MaxTrial(st, depth, moves[k]), depth, moves, k + 1)

\* The body of the minimizing for loop without `self.board[move] = temp`
MinStep_keeps_marker(st, mv, sub) ==
    [score |-> IF sub.score < st.score THEN sub.score ELSE st.score,
     move |-> IF sub.score < st.score THEN Ret(mv) ELSE st.move,
     board |-> sub.board,
     alpha |-> st.alpha,
     beta |-> Min(st.beta, sub.score),
     broke |-> Min(st.beta, sub.score) <= st.alpha]

\* The body of the minimizing for loop with a break after every move
MinStep_breaks_at_once(st, mv, sub) ==
    [score |-> IF sub.score < st.score THEN sub.score ELSE st.score,
     move |-> IF sub.score < st.score THEN Ret(mv) ELSE st.move,
     board |-> [sub.board EXCEPT ![mv] = st.board[mv]],
     alpha |-> st.alpha,
     beta |-> Min(st.beta, sub.score),
     broke |-> TRUE]

\* The body of the minimizing for loop for move mv
MinStep(st, mv, sub) ==
    [score |-> IF sub.score < st.score THEN sub.score ELSE st.score,
     move |-> IF sub.score < st.score THEN Ret(mv) ELSE st.move,
     board |-> [sub.board EXCEPT ![mv] = st.board[mv]],
     alpha |-> st.alpha,
     beta |-> Min(st.beta, sub.score),
     broke |-> Min(st.beta, sub.score) <= st.alpha]

\* One pass of the minimizing for loop
MinTrial(st, depth, mv) ==
    MinStep(st, mv, minimax([st.board EXCEPT ![mv] = "X"], depth - 1,
                            st.alpha, st.beta, TRUE))

\* The minimizing for loop of TicTacToe.minimax from the k-th move on
MinLoop(st, depth, moves, k) ==
    IF k > Len(moves) \/ st.broke THEN st
    ELSE MinLoop(MinTrial(st, depth, moves[k]), depth, moves, k + 1)

\* The terminal state checks of minimax apply: a winner, a full board, or
\* no depth left
Leaf(b, depth) ==
    is_winner(b, "O") \/ is_winner(b, "X") \/ is_board_full(b) \/ depth = 0

\* The score minimax returns from its terminal state checks
LeafScore(b, depth) ==
    IF is_winner(b, "O") THEN 100 + depth
    ELSE IF is_winner(b, "X") THEN (0 - 100) - depth
    ELSE IF is_board_full(b) THEN 0
    ELSE evaluate_position(b, depth)

\* TicTacToe.minimax with the score of its short cut negated
Search_shortcut_negated(depth, alpha, beta, is_maximizing, win) ==
    IF win.move # None
    THEN [score |-> IF is_maximizing THEN (0 - 100) - depth ELSE 100 + depth,
          move |-> win.move, board |-> win.board]
    ELSE IF Leaf(win.board, depth)
    THEN [score |-> LeafScore(win.board, depth), move |-> None,
          board |-> win.board]
    ELSE IF is_maximizing
    THEN MaxLoop(LoopState(0 - Infinity, None, win.board, alpha, beta, FALSE),
                 depth,
                 SortByWeight(TicTacToe_get_valid_moves(win.board), TRUE), 1)
    ELSE MinLoop(LoopState(Infinity, None, win.board, alpha, beta, FALSE),
                 depth,
                 SortByWeight(TicTacToe_get_valid_moves(win.board), FALSE), 1)

\* TicTacToe.minimax after its call of get_winning_move has returned win
Search(depth, alpha, beta, is_maximizing, win) ==
    IF win.move # None
    THEN [score |-> IF is_maximizing THEN 100 + depth ELSE (0 - 100) - depth,
          move |-> win.move, board |-> win.board]
    ELSE IF Leaf(win.board, depth)
    THEN [score |-> LeafScore(win.board, depth), move |-> None,
          board |-> win.board]
    ELSE IF is_maximizing
    THEN MaxLoop(LoopState(0 - Infinity, None, win.board, alpha, beta, FALSE),
                 depth,
                 SortByWeight(TicTacToe_get_valid_moves(win.board), TRUE), 1)
    ELSE MinLoop(LoopState(Infinity, None, win.board, alpha, beta, FALSE),
                 depth,
                 SortByWeight(TicTacToe_get_valid_moves(win.board), FALSE), 1)

\* TicTacToe.minimax with the sides of its first test exchanged: it looks for
\* the opponent's winning move, to block it, before its own
minimax_blocks_first(b, depth, alpha, beta, is_maximizing) ==
    Search(depth, alpha, beta, is_maximizing,
           get_winning_move(b, IF is_maximizing THEN "X" ELSE "O"))

\* TicTacToe.minimax: (score, best_move), and the board afterwards
minimax(b, depth, alpha, beta, is_maximizing) ==
    Search(depth, alpha, beta, is_maximizing,
           get_winning_move(b, IF is_maximizing THEN "O" ELSE "X"))

\* TicTacToe.get_ai_move
get_ai_move(b) ==
    The({[move |-> r.move, board |-> r.board] :
         r \in {minimax(b, SearchDepth, 0 - Infinity, Infinity, TRUE)}})

\* The search of TicTacToe.minimax without its first step, the test for an
\* immediate winning move (lines 108-117): the terminal tests and the two
\* loops as they are, the recursive calls going to the same search.
RECURSIVE minimax_without_shortcut(_, _, _, _, _)
RECURSIVE MaxLoop_without_shortcut(_, _, _, _)
RECURSIVE MinLoop_without_shortcut(_, _, _, _)

MaxTrial_without_shortcut(st, depth, mv) ==
    MaxStep(st, mv, minimax_without_shortcut([st.board EXCEPT ![mv] = "O"],
                                             depth - 1, st.alpha, st.beta, FALSE))

MaxLoop_without_shortcut(st, depth, moves, k) ==
    IF k > Len(moves) \/ st.broke THEN st
    ELSE MaxLoop_without_shortcut(MaxTrial_without_shortcut(st, depth, moves[k]),
                                  depth, moves, k + 1)

MinTrial_without_shortcut(st, depth, mv) ==
    MinStep(st, mv, minimax_without_shortcut([st.board EXCEPT ![mv] = "X"],
                                             depth - 1, st.alpha, st.beta, TRUE))

MinLoop_without_shortcut(st, depth, moves, k) ==
    IF k > Len(moves) \/ st.broke THEN st
    ELSE MinLoop_without_shortcut(MinTrial_without_shortcut(st, depth, moves[k]),
                                  depth, moves, k + 1)

minimax_without_shortcut(b, depth, alpha, beta, is_maximizing) ==
    IF Leaf(b, depth)
    THEN [score |-> LeafScore(b, depth), move |-> None, board |-> b]
    ELSE IF is_maximizing
    THEN MaxLoop_without_shortcut(
             LoopState(0 - Infinity, None, b, alpha, beta, FALSE), depth,
             SortByWeight(TicTacToe_get_valid_moves(b), TRUE), 1)
    ELSE MinLoop_without_shortcut(
             LoopState(Infinity, None, b, alpha, beta, FALSE), depth,
             SortByWeight(TicTacToe_get_valid_moves(b), FALSE), 1)

\* The search of TicTacToe.minimax with `if beta <= alpha: break` (lines 143
\* and 158) disabled: alpha and beta are kept as before, and the test that
\* leaves the loop is never true.
RECURSIVE minimax_without_cutoff(_, _, _, _, _)
RECURSIVE MaxLoop_without_cutoff(_, _, _, _)
RECURSIVE MinLoop_without_cutoff(_, _, _, _)

MaxTrial_without_cutoff(st, depth, mv) ==
    [MaxStep(st, mv, minimax_without_cutoff([st.board EXCEPT ![mv] = "O"],
                                            depth - 1, st.alpha, st.beta, FALSE))
        EXCEPT !.broke = FALSE]

MaxLoop_without_cutoff(st, depth, moves, k) ==
    IF k > Len(moves) \/ st.broke THEN st
    ELSE MaxLoop_without_cutoff(MaxTrial_without_cutoff(st, depth, moves[k]),
                                depth, moves, k + 1)

MinTrial_without_cutoff(st, depth, mv) ==
    [MinStep(st, mv, minimax_without_cutoff([st.board EXCEPT ![mv] = "X"],
                                            depth - 1, st.alpha, st.beta, TRUE))
        EXCEPT !.broke = FALSE]

MinLoop_without_cutoff(st, depth, moves, k) ==
    IF k > Len(moves) \/ st.broke THEN st
    ELSE MinLoop_without_cutoff(MinTrial_without_cutoff(st, depth, moves[k]),
                                depth, moves, k + 1)

Search_without_cutoff(depth, alpha, beta, is_maximizing, win) ==
    IF win.move # None
    THEN [score |-> IF is_maximizing THEN 100 + depth ELSE (0 - 100) - depth,
          move |-> win.move, board |-> win.board]
    ELSE IF Leaf(win.board, depth)
    THEN [score |-> LeafScore(win.board, depth), move |-> None,
          board |-> win.board]
    ELSE IF is_maximizing
    THEN MaxLoop_without_cutoff(
             LoopState(0 - Infinity, None, win.board, alpha, beta, FALSE), depth,
             SortByWeight(TicTacToe_get_valid_moves(win.board), TRUE), 1)
    ELSE MinLoop_without_cutoff(
             LoopState(Infinity, None, win.board, alpha, beta, FALSE), depth,
             SortByWeight(TicTacToe_get_valid_moves(win.board), FALSE), 1)

minimax_without_cutoff(b, depth, alpha, beta, is_maximizing) ==
    Search_without_cutoff(depth, alpha, beta, is_maximizing,
                          get_winning_move(b, IF is_maximizing THEN "O" ELSE "X"))

-----------------------------------------------------------------------------
(* The engine at work: marks are placed in turn on a TicTacToe board, as   *)
(* tictac.play_game places them, and the engine is called on the boards    *)
(* that arise.                                                             *)

\* The side to move on the engine's board: X, the human of
\* tictac.play_game, moves first.
ToMove == IF Count(game, "X") = Count(game, "O") THEN "X" ELSE "O"

\* In tictac.play_game an engine call is followed by a make_move: the engine
\* is called on a board as the latest make_move left it.
EngineReady == answer.op \in {"none", "make_move"}

\* tictac.play_game's tests after a move: a winner, or a full board
GameOver == is_winner(game, "X") \/ is_winner(game, "O") \/ is_board_full(game)

\* game.make_move(move, player) of tictac.play_game, for the side to move.
\* A refused position changes nothing, and another one is tried.
Place ==
    /\ ~GameOver
    /\ \E position \in (0 - PosSlack)..(8 + PosSlack) :
          \E r \in {TicTacToe_make_move(game, position, ToMove)} :
             /\ r.ok
             /\ game' = r.board
    /\ query' = [op |-> "make_move"]
    /\ answer' = [op |-> "make_move"]

\* game.get_ai_move()
CallGetAiMove ==
    /\ EngineReady
    /\ \E r \in {get_ai_move(game)} :
        /\ query' = [op |-> "get_ai_move", board |-> game]
        /\ answer' = [op |-> "get_ai_move", move |-> r.move]
        /\ game' = r.board

\* game.minimax(depth, -inf, inf, is_maximizing)
CallMinimax ==
    /\ EngineReady
    /\ \E depth \in 0..SearchDepth, is_maximizing \in BOOLEAN :
        \E r \in {minimax(game, depth, 0 - Infinity, Infinity, is_maximizing)} :
           /\ query' = [op |-> "minimax", board |-> game, depth |-> depth,
                        is_maximizing |-> is_maximizing]
           /\ answer' = [op |-> "minimax", score |-> r.score, move |-> r.move]
           /\ game' = r.board
   
\* game.get_winning_move(player)
CallGetWinningMove ==
    /\ EngineReady
    /\ \E player \in Marks :
        \E r \in {get_winning_move(game, player)} :
           /\ query' = [op |-> "get_winning_move", board |-> game, player |-> player]
           /\ answer' = [op |-> "get_winning_move", move |-> r.move]
           /\ game' = r.board
   
\* A new TicTacToe
InitEngine ==
    /\ driver = "tictac"
    /\ player1 = "human"
    /\ player2 = "get_ai_move"
    /\ rl_observer = FALSE
    /\ Entry(NewBoard)
    /\ game = NewBoard
    /\ query = [op |-> "none"]
    /\ answer = [op |-> "none"]
    /\ AgentIdle

NextEngine ==
    \/ (Place /\ UNCHANGED <<gameVars, agentVars>>)
    \/ (CallGetAiMove /\ UNCHANGED <<gameVars, agentVars>>)
    \/ (CallMinimax /\ UNCHANGED <<gameVars, agentVars>>)
    \/ (CallGetWinningMove /\ UNCHANGED <<gameVars, agentVars>>)

\* The search engine of tictac.py
SpecEngine == InitEngine /\ [][NextEngine]_vars

\* tictac.play_game, the human's turn: int(input(...)) - 1 is tried with
\* game.make_move(move, 'X') until a position is accepted.
HumanTurn ==
    /\ ~GameOver
    /\ ToMove = "X"
    /\ answer.op # "TypeError"
    /\ \E position \in (0 - PosSlack)..(8 + PosSlack) :
          \E r \in {TicTacToe_make_move(game, position, "X")} :
             /\ r.ok
             /\ game' = r.board
             /\ query' = [op |-> "make_move", position |-> position]
             /\ answer' = [op |-> "make_move"]

\* tictac.play_game, the AI's turn: ai_move = game.get_ai_move() followed by
\* game.make_move(ai_move, 'O').  With ai_move None the comparison
\* 0 <= position of is_valid_move raises TypeError, which nothing catches.
AiTurn ==
    /\ ~GameOver
    /\ ToMove = "O"
    /\ answer.op # "TypeError"
    /\ \E r \in {get_ai_move(game)} :
          /\ query' = [op |-> "get_ai_move", board |-> game]
          /\ IF r.move = None
             THEN /\ answer' = [op |-> "TypeError", move |-> r.move]
                  /\ game' = r.board
             ELSE /\ answer' = [op |-> "get_ai_move", move |-> r.move]
                  /\ game' = TicTacToe_make_move(r.board, r.move.val, "O").board

NextTictac ==
    \/ (HumanTurn /\ UNCHANGED <<gameVars, agentVars>>)
    \/ (AiTurn /\ UNCHANGED <<gameVars, agentVars>>)

\* tictac.play_game: the human plays X and moves first, the engine replies
SpecTictac == InitEngine /\ [][NextTictac]_vars

\* A new RLAgent in a directory without pickle files.  The game loop and the
\* search engine are idle.
InitAgent ==
    /\ driver = "agent"
    /\ player1 = "arbitrary"
    /\ player2 = "arbitrary"
    /\ rl_observer = FALSE
    /\ Entry(NewBoard)
    /\ EngineIdle
    /\ files = [f \in FileNames |-> Missing]
    /\ \E h \in HyperChoices :
          /\ q_table = RLAgent(h.lr, h.gamma, h.epsilon, files).q_table
          /\ lr = h.lr
          /\ gamma = h.gamma
          /\ epsilon = h.epsilon
    /\ save_counter = 0
    /\ request = [op |-> "RLAgent"]
    /\ reply = None
    /\ calls = 0
    /\ observer = None
    /\ writer = None

NextAgent ==
    \/ (Construct /\ UNCHANGED <<gameVars, engineVars>>)
    \/ (ChooseAction /\ UNCHANGED <<gameVars, engineVars>>)
    \/ (Learn /\ UNCHANGED <<gameVars, engineVars>>)
    \/ (Save /\ UNCHANGED <<gameVars, engineVars>>)
    \/ (SaveQTable /\ UNCHANGED <<gameVars, engineVars>>)
    \/ (Load /\ UNCHANGED <<gameVars, engineVars>>)
    \/ (LoadQTable /\ UNCHANGED <<gameVars, engineVars>>)
    \/ (Damage /\ UNCHANGED <<gameVars, engineVars>>)

\* The RL agent of rl_agent.py
SpecAgent == InitAgent /\ [][NextAgent]_vars

\* A long run of learn calls on one agent, as a training loop makes them;
\* calls counts the learn calls since the agent was constructed.  The run is
\* followed over two periods of the counter and one call more.
MaxLearns == 2 * SaveEvery + 1

\* The default hyperparameters of RLAgent.__init__
Defaults == [lr |-> Float(1, 10), gamma |-> Float(19, 20), epsilon |-> Float(1, 10)]

\* The reward of the lesson that is repeated: play_game's reward of a win
LessonRewards == {Reward(X_WINS) * Unit}

\* agent = RLAgent() with the default hyperparameters, files as they are
InitLessons ==
    /\ driver = "agent"
    /\ player1 = "arbitrary"
    /\ player2 = "arbitrary"
    /\ rl_observer = FALSE
    /\ Entry(NewBoard)
    /\ EngineIdle
    /\ files = [f \in FileNames |-> Missing]
    /\ q_table = RLAgent(Defaults.lr, Defaults.gamma, Defaults.epsilon, files).q_table
    /\ lr = Defaults.lr
    /\ gamma = Defaults.gamma
    /\ epsilon = Defaults.epsilon
    /\ save_counter = 0
    /\ request = [op |-> "RLAgent"]
    /\ reply = None
    /\ calls = 0
    /\ observer = None
    /\ writer = None

\* agent.learn(state, action, reward, next_state, True) for the last move
\* of a game
Lesson ==
    /\ calls < MaxLearns
    /\ calls' = calls + 1
    /\ \E reward \in LessonRewards :
          LET state == get_state_key(ThreeLeft)
              next_state == get_state_key(TwoLeft)
              a == learn(q_table, lr, gamma, save_counter, files,
                         state, 6, reward, next_state, TRUE)
          IN  /\ q_table' = a.q_table
              /\ save_counter' = a.save_counter
              /\ files' = a.files
              /\ request' = [op |-> "learn", state |-> state, action |-> 6,
                             reward |-> reward, next_state |-> next_state,
                             done |-> TRUE]
              /\ reply' = None
              /\ UNCHANGED <<lr, gamma, epsilon, observer, writer>>

\* agent.save_q_table() called between two lessons
LessonSaveQTable ==
    /\ request.op = "learn"
    /\ files' = save_q_table(q_table, files, DefaultTableFile)
    /\ request' = [op |-> "save_q_table", filename |-> DefaultTableFile]
    /\ reply' = None
    /\ UNCHANGED <<q_table, lr, gamma, epsilon, save_counter, calls, observer,
                   writer>>

\* agent = RLAgent(): a new agent takes the place of the one at work
LessonConstruct ==
    /\ request.op = "learn"
    /\ LET a == RLAgent(Defaults.lr, Defaults.gamma, Defaults.epsilon, files)
       IN  /\ q_table' = a.q_table
           /\ lr' = a.lr
           /\ gamma' = a.gamma
           /\ epsilon' = a.epsilon
           /\ save_counter' = a.save_counter
    /\ calls' = 0
    /\ request' = [op |-> "RLAgent"]
    /\ reply' = None
    /\ UNCHANGED <<files, observer, writer>>

NextLessons ==
    \/ (Lesson /\ UNCHANGED <<gameVars, engineVars>>)
    \/ (LessonSaveQTable /\ UNCHANGED <<gameVars, engineVars>>)
    \/ (LessonConstruct /\ UNCHANGED <<gameVars, engineVars>>)

\* One agent over many learn calls
SpecLessons == InitLessons /\ [][NextLessons]_vars

\* Two agents in one process, as rl_vs_tictoc.main and human_vs_rl.main make
\* them: rl_player (the agent of q_table, lr, gamma, epsilon, save_counter)
\* chooses the moves, rl_observer (the agent of observer) is taught by
\* play_game, and both are saved, each to a file of its own.
PlayerFile == "rl_player.pkl"
ObserverFile == "rl_observer.pkl"
PairFiles == {DefaultTableFile, PlayerFile, ObserverFile}

\* How many steps the two agents are followed for
MaxPairCalls == 5

\* The fields of a new agent as a record
NewAgent(fs) == RLAgent(Defaults.lr, Defaults.gamma, Defaults.epsilon, fs)

\* rl_player = RLAgent(); rl_observer = RLAgent() in a directory without
\* pickle files
InitPair ==
    /\ driver = "agent"
    /\ player1 = "arbitrary"
    /\ player2 = "arbitrary"
    /\ rl_observer = TRUE
    /\ Entry(NewBoard)
    /\ EngineIdle
    /\ files = [f \in PairFiles |-> Missing]
    /\ q_table = NewAgent(files).q_table
    /\ lr = NewAgent(files).lr
    /\ gamma = NewAgent(files).gamma
    /\ epsilon = NewAgent(files).epsilon
    /\ save_counter = NewAgent(files).save_counter
    /\ observer = NewAgent(files)
    /\ writer = [f \in PairFiles |-> "nobody"]
    /\ request = [op |-> "RLAgent", agent |-> "main"]
    /\ reply = None
    /\ calls = 0

PairStep == calls < MaxPairCalls /\ calls' = calls + 1

\* rl_player.choose_action(board) in get_rl_move
PairChooseAction ==
    /\ PairStep
    /\ \E b \in AgentBoards :
        \E o \in RLAgent_choose_action(q_table, epsilon, b) :
            /\ q_table' = o.q_table
            /\ request' = [op |-> "choose_action", agent |-> "rl_player"]
            /\ reply' = o.ret
    /\ UNCHANGED <<lr, gamma, epsilon, save_counter, files, observer, writer>>

\* rl_observer.learn(state, action, reward, board.get_state_key(), True) at
\* the end of an observed game
PairLearn ==
    /\ PairStep
    /\ \E mv \in LearnMoves, reward \in {0, Unit} :
          LET a == learn(observer.q_table, observer.lr, observer.gamma,
                         observer.save_counter, files, get_state_key(mv[1]),
                         mv[2], reward, get_state_key(NoneLeft), TRUE)
          IN  /\ observer' = [observer EXCEPT !.q_table = a.q_table,
                                              !.save_counter = a.save_counter]
              /\ files' = a.files
              /\ writer' = IF observer.save_counter + 1 >= SaveEvery
                           THEN [writer EXCEPT ![DefaultTableFile] = "rl_observer"]
                           ELSE writer
    /\ request' = [op |-> "learn", agent |-> "rl_observer"]
    /\ reply' = None
    /\ UNCHANGED <<q_table, lr, gamma, epsilon, save_counter>>

\* rl_player.save("rl_player.pkl")
PairSavePlayer ==
    /\ PairStep
    /\ files' = save(q_table, lr, gamma, epsilon, files, PlayerFile)
    /\ writer' = [writer EXCEPT ![PlayerFile] = "rl_player",
                                ![DefaultTableFile] = "rl_player"]
    /\ request' = [op |-> "save", agent |-> "rl_player"]
    /\ reply' = None
    /\ UNCHANGED <<q_table, lr, gamma, epsilon, save_counter, observer>>

\* rl_observer.save("rl_observer.pkl"), the statement after
\* rl_player.save("rl_player.pkl")
PairSaveObserver ==
    /\ PairStep
    /\ request = [op |-> "save", agent |-> "rl_player"]
    /\ files' = save(observer.q_table, observer.lr, observer.gamma,
                     observer.epsilon, files, ObserverFile)
    /\ writer' = [writer EXCEPT ![ObserverFile] = "rl_observer",
                                ![DefaultTableFile] = "rl_observer"]
    /\ request' = [op |-> "save", agent |-> "rl_observer"]
    /\ reply' = None
    /\ UNCHANGED <<q_table, lr, gamma, epsilon, save_counter, observer>>

\* main() of the next run: rl_player = RLAgent(); rl_observer = RLAgent() on
\* the files that the run before left
PairMain ==
    /\ PairStep
    /\ request = [op |-> "save", agent |-> "rl_observer"]
    /\ q_table' = NewAgent(files).q_table
    /\ lr' = NewAgent(files).lr
    /\ gamma' = NewAgent(files).gamma
    /\ epsilon' = NewAgent(files).epsilon
    /\ save_counter' = NewAgent(files).save_counter
    /\ observer' = NewAgent(files)
    /\ request' = [op |-> "RLAgent", agent |-> "main"]
    /\ reply' = None
    /\ UNCHANGED <<files, writer>>

NextPair ==
    \/ (PairChooseAction /\ UNCHANGED <<gameVars, engineVars>>)
    \/ (PairLearn /\ UNCHANGED <<gameVars, engineVars>>)
    \/ (PairSavePlayer /\ UNCHANGED <<gameVars, engineVars>>)
    \/ (PairSaveObserver /\ UNCHANGED <<gameVars, engineVars>>)
    \/ (PairMain /\ UNCHANGED <<gameVars, engineVars>>)

\* A playing and an observing agent in one working directory
SpecPair == InitPair /\ [][NextPair]_vars

-----------------------------------------------------------------------------
(* Vocabulary of the properties *)

\* The 8 lines of the 3x3 grid: 3 rows, 3 columns, 2 diagonals
Rows == {{3 * r + c : c \in 0..2} : r \in 0..2}
Columns == {{3 * r + c : r \in 0..2} : c \in 0..2}
Diagonals == {{0, 4, 8}, {2, 4, 6}}
AllLines == Rows \cup Columns \cup Diagonals

HasLine(b, m) == \E l \in AllLines : \A i \in l : b[i] = m

IsEmpty(b, i) == b[i] \notin Marks

IsFull(b) == \A i \in Cells : ~IsEmpty(b, i)

NoLine(b) == ~HasLine(b, "X") /\ ~HasLine(b, "O")

\* The empty cells that complete a line of three for mark m
WinningCells(b, m) ==
    {c \in Cells : /\ IsEmpty(b, c)
                   /\ \E l \in AllLines : c \in l /\ \A i \in l \ {c} : b[i] = m}

\* The board [X, X, _, O, O, _, _, _, _]
BoardXXOO == [NewBoard EXCEPT ![0] = "X", ![1] = "X", ![3] = "O", ![4] = "O"]

\* The side a search was made for: get_ai_move searches for O
SearchedFor ==
    IF answer.op = "minimax" /\ ~query.is_maximizing THEN "X" ELSE "O"

\* The provider play_game asks next
ActiveProvider == IF current_player = "X" THEN player1 ELSE player2

-----------------------------------------------------------------------------
(* Properties of Board and play_game *)

\* C1: Board.make_move(position, symbol), on every board the game loop
\* reaches and for every position (in range or not, empty or occupied) and
\* either symbol: if cell position-1 is in range and empty it returns True and
\* changes exactly that cell to symbol; otherwise it returns False and leaves
\* all 9 cells as they were.
C1_MakeMoveContract ==
    \A position \in Positions, symbol \in Marks :
        LET r == make_move(board, position, symbol)
            c == position - 1
        IN IF c \in Cells /\ IsEmpty(board, c)
           THEN /\ r.ok
                /\ r.board[c] = symbol
                /\ \A i \in Cells \ {c} : r.board[i] = board[i]
           ELSE /\ ~r.ok
                /\ r.board = board

\* C1 witness: play_game has just had a move on an occupied cell refused.
C1_Witness ==
    /\ attempt = "invalid"
    /\ move.kind = "int"
    /\ move.val - 1 \in Cells
    /\ ~IsEmpty(board, move.val - 1)

\* C2: on every board reached by alternating play from the empty board,
\* Board.check_winner returns X_WINS (O_WINS) exactly when one of the 8 lines
\* holds three X (three O), DRAW exactly when no line is complete and no cell
\* is empty, and ONGOING otherwise.
C2_CheckWinnerClassifies ==
    fresh =>
        /\ (check_winner(board) = X_WINS) <=> HasLine(board, "X")
        /\ (check_winner(board) = O_WINS) <=> HasLine(board, "O")
        /\ (check_winner(board) = DRAW) <=>
               (~HasLine(board, "X") /\ ~HasLine(board, "O") /\ IsFull(board))
        /\ (check_winner(board) = ONGOING) <=>
               (~HasLine(board, "X") /\ ~HasLine(board, "O") /\ ~IsFull(board))

\* C2 witness: a fully occupied board with a completed line, on which the
\* game returned the win.
C2_Witness ==
    /\ fresh
    /\ IsFull(board)
    /\ HasLine(board, "X")
    /\ game_state = X_WINS

\* C3: while play_game runs on a board that was all-empty when it started,
\* the board never holds a completed line of X and a completed line of O.
C3_NeverTwoWinners ==
    fresh => ~(HasLine(board, "X") /\ HasLine(board, "O"))

\* C3 witness: a game from an empty board that O has won.
C3_Witness ==
    /\ fresh
    /\ game_state = O_WINS
    /\ HasLine(board, "O")

\* C4: once a board's check_winner is X_WINS, O_WINS or DRAW, no later step
\* places another marker on it.
C4_TerminalAbsorbing ==
    [][check_winner(board) # ONGOING =>
          \A i \in Cells : IsEmpty(board, i) => IsEmpty(board', i)]_vars

\* C5: a failed turn attempt of play_game (None, an out-of-range or occupied
\* position, an exception) leaves the board, the active side and the move
\* history unchanged and play_game keeps running with the same side to be
\* asked; within one play_game call the active side changes only with a
\* move that was applied.
C5_FailedAttemptChangesNothing ==
    [][/\ attempt' \in {"invalid", "error"} =>
            /\ board' = board
            /\ current_player' = current_player
            /\ moves_history' = moves_history
            /\ game_state' = "NONE"
       /\ (attempt' # "start" /\ current_player' # current_player) =>
            /\ attempt' = "applied"
            /\ \E c \in Cells :
                  /\ IsEmpty(board, c)
                  /\ board' = [board EXCEPT ![c] = current_player]]_vars

\* C5 witness: an observed game in which moves were recorded and the latest
\* attempt, by O, was refused.
C5_Witness ==
    /\ attempt = "invalid"
    /\ rl_observer
    /\ moves_history # <<>>
    /\ current_player = "O"

\* C6: a shipped move provider called by play_game on a non-terminal board
\* returns a 1-based index of an empty cell or None; it never raises and
\* never returns an occupied or out-of-range position.
C6_ShippedProvidersBehave ==
    (ActiveProvider \in Shipped /\ check_winner(board) = ONGOING) =>
        /\ attempt \notin {"invalid", "error"}
        /\ \A r \in Call(ActiveProvider, board) :
              r = None \/ (r.kind = "int" /\ r.val \in get_valid_moves(board))

-----------------------------------------------------------------------------
(* Properties of the search engine *)

\* C7: on every board reached by alternating play, the move returned by
\* get_ai_move, by minimax at any depth and for either value of
\* is_maximizing, and by get_winning_move is None or the 0-based index of a
\* cell that held neither X nor O when the call was made.
C7_EngineMoveIsEmptyCell ==
    answer.op \in {"get_ai_move", "minimax", "get_winning_move"} =>
        \/ answer.move = None
        \/ /\ answer.move.kind = "int"
           /\ answer.move.val \in Cells
           /\ IsEmpty(query.board, answer.move.val)

\* C7 witness: minimax, called for the X side below the full depth on a
\* board with four marks, returned a move.
C7_Witness ==
    /\ answer.op = "minimax"
    /\ ~query.is_maximizing
    /\ query.depth = 3
    /\ Count(query.board, "X") = 2
    /\ Count(query.board, "O") = 2
    /\ answer.move # None

\* C8: whenever O has a cell that completes a line for it, get_ai_move
\* returns such a cell, on every board and whether or not X has an immediate
\* win of its own; so does minimax, at any depth, for the side it is called
\* for, on every board with no completed line; and minimax for the X side on
\* [X,X,_,O,O,_,_,_,_] returns index 2.
C8_TakesImmediateWin ==
    /\ (answer.op = "get_ai_move" /\ WinningCells(query.board, "O") # {}) =>
            /\ answer.move # None
            /\ answer.move.val \in WinningCells(query.board, "O")
    /\ (answer.op = "minimax" /\ NoLine(query.board)
          /\ WinningCells(query.board, SearchedFor) # {}) =>
            /\ answer.move # None
            /\ answer.move.val \in WinningCells(query.board, SearchedFor)
    /\ (answer.op = "minimax" /\ ~query.is_maximizing
          /\ query.board = BoardXXOO) => answer.move = Ret(2)

\* C8 witness: minimax was called for the X side on [X,X,_,O,O,_,_,_,_],
\* where O has an immediate win too.
C8_Witness ==
    /\ answer.op = "minimax"
    /\ ~query.is_maximizing
    /\ query.board = BoardXXOO
    /\ WinningCells(query.board, "O") # {}

\* C9: on a board with O to move and no completed line, on which X has at
\* least one immediate winning cell and O has none, get_ai_move returns one
\* of X's immediate winning cells.
C9_BlocksImmediateLoss ==
    (/\ answer.op = "get_ai_move"
     /\ Count(query.board, "X") = Count(query.board, "O") + 1
     /\ NoLine(query.board)
     /\ WinningCells(query.board, "X") # {}
     /\ WinningCells(query.board, "O") = {}) =>
        /\ answer.move # None
        /\ answer.move.val \in WinningCells(query.board, "X")

\* C9 restricted to the boards on which X has exactly one winning cell
C9_BlocksSingleThreat ==
    (/\ answer.op = "get_ai_move"
     /\ Count(query.board, "X") = Count(query.board, "O") + 1
     /\ NoLine(query.board)
     /\ Cardinality(WinningCells(query.board, "X")) = 1
     /\ WinningCells(query.board, "O") = {}) =>
        /\ answer.move # None
        /\ answer.move.val \in WinningCells(query.board, "X")

\* C10: on a board with no completed line, get_ai_move returns None if and
\* only if the board has no empty cell.
C10_NoMoveIffFull ==
    (answer.op = "get_ai_move" /\ NoLine(query.board)) =>
        (answer.move = None <=> IsFull(query.board))

\* C10 witness: get_ai_move was called on a full board with no completed
\* line, and returned None.
C10_Witness ==
    /\ answer.op = "get_ai_move"
    /\ NoLine(query.board)
    /\ IsFull(query.board)
    /\ answer.move = None

-----------------------------------------------------------------------------
(* Properties of the observer's lessons and of the RL agent *)

\* The cells on which board b differs from the board play_game started on
Played(b) == {c \in Cells : b[c] # start[c]}

\* The cells on which a state key differs from the board play_game started on
PlayedIn(key) == {c \in Cells : key[c + 1] # start[c]}

\* C11: in an observed play_game call the observer is taught only once the
\* outcome is terminal, and then by exactly one learn call for each applied
\* move of either side, in the order of the moves, every call with the same
\* reward (1 for a win, 0 for a draw) and done = True; an attempt that
\* failed is followed by no learn call and leaves no entry.
C11_OneLessonPerAppliedMove ==
    /\ [](rl_observer =>
            /\ game_state = "NONE" => learned = <<>>
            /\ game_state # "NONE" =>
                  /\ Len(learned) = Cardinality(Played(board))
                  /\ \A i \in 1..Len(learned) :
                        /\ PlayedIn(learned[i].state) =
                              {learned[j].action : j \in 1..i}
                        /\ Cardinality(PlayedIn(learned[i].state)) = i
                        /\ learned[i].reward = (IF game_state = DRAW THEN 0 ELSE 1)
                        /\ learned[i].done = TRUE)
    /\ [][attempt' \in {"invalid", "error"} =>
            /\ learned' = learned
            /\ moves_history' = moves_history]_vars

\* C11 witness: an observed game was won by the third applied move, and the
\* observer was taught about all three.
C11_Witness ==
    /\ rl_observer
    /\ game_state = X_WINS
    /\ Cardinality(Played(board)) = 3
    /\ Len(learned) = 3
    /\ learned[1].reward = 1

\* C17: in a play_game call that started on an all-empty board, X moves
\* first and the sides alternate on applied moves: while the game runs, the
\* board holds as many X as O when X is to move and one X more when O is to
\* move; and a win that is returned is a win of the side that moved last.
C17_SidesAlternate ==
    fresh =>
        /\ game_state = "NONE" =>
              Count(board, "X") - Count(board, "O") =
                  (IF current_player = "X" THEN 0 ELSE 1)
        /\ game_state = X_WINS =>
              /\ Count(board, "X") = Count(board, "O") + 1
              /\ current_player = "X"
              /\ board[move.val - 1] = "X"
              /\ HasLine(board, "X")
        /\ game_state = O_WINS =>
              /\ Count(board, "X") = Count(board, "O")
              /\ current_player = "O"
              /\ board[move.val - 1] = "O"
              /\ HasLine(board, "O")

\* C17 witness: a game that started on an empty board was won by O with its
\* third mark.
C17_Witness ==
    /\ fresh
    /\ game_state = O_WINS
    /\ Count(board, "O") = 3
    /\ Count(board, "X") = 3

\* C18: every play_game call that a game-mode driver issues, the later games
\* of a 'play again' session included, starts on an all-empty board.
C18_EveryGameStartsEmpty ==
    driver \in PlayDrivers \cup ScriptDrivers => start = NewBoard

\* C20: when an observed game ends in a win, the learn calls with reward 1
\* are about moves of the winning side only: no pair of the losing side is
\* taught the reward 1.
C20_RewardForWinnerOnly ==
    (rl_observer /\ game_state \in {X_WINS, O_WINS}) =>
        \A i \in 1..Len(learned) :
            learned[i].reward = 1 =>
                board[learned[i].action] = (IF game_state = X_WINS THEN "X" ELSE "O")

\* C16: when a call of minimax, get_winning_move or get_ai_move has returned,
\* by its normal return, by the immediate-win short cut or after a loop left
\* by the alpha-beta break, each of the 9 cells holds what it held when the
\* call was made.
C16_SearchRestoresBoard ==
    answer.op \in {"minimax", "get_winning_move", "get_ai_move"} =>
        \A c \in Cells : game[c] = query.board[c]

\* C16 witness: a full-depth minimax call for the maximizing side on a board
\* with marks on it and no immediate win, so that its loop placed trial
\* markers and searched below them, has returned a move.
C16_Witness ==
    /\ answer.op = "minimax"
    /\ query.depth = SearchDepth
    /\ query.is_maximizing
    /\ Count(query.board, "X") = 2
    /\ NoLine(query.board)
    /\ get_winning_move(query.board, "O").move = None
    /\ answer.move # None
    /\ game = query.board

\* The Q-value of playing the 1-based move m on board b, 0 when the table
\* has no entry for it
QValue(q, b, m) ==
    IF <<get_state_key(b), m - 1>> \in DOMAIN q
    THEN q[<<get_state_key(b), m - 1>>] ELSE 0

\* The valid moves of b whose Q-value no valid move exceeds
BestMoves(q, b) ==
    {m \in get_valid_moves(b) :
        \A n \in get_valid_moves(b) : QValue(q, b, n) <= QValue(q, b, m)}

\* C12: with epsilon = 0, the moves that choose_action can return on a board
\* with an empty cell are exactly the valid moves of maximal Q-value for the
\* board's state key, an absent entry counting 0: each of them can be
\* returned, and a move that was returned is one of them.
C12_GreedyChoiceIsArgmax ==
    epsilon = 0 =>
        /\ \A b \in AgentBoards :
              get_valid_moves(b) # {} =>
                  {o.ret : o \in RLAgent_choose_action(q_table, epsilon, b)} =
                      {Ret(m) : m \in BestMoves(q_table, b)}
        /\ (request.op = "choose_action" /\ get_valid_moves(request.board) # {}) =>
              reply \in {Ret(m) : m \in BestMoves(q_table, request.board)}

\* C12 witness: a greedy agent whose table rates moves 7 and 8 of a board
\* equally and above move 9 was asked and returned 8, the second of the two.
C12_Witness ==
    /\ epsilon = 0
    /\ request.op = "choose_action"
    /\ request.board = ThreeLeft
    /\ BestMoves(q_table, ThreeLeft) = {7, 8}
    /\ reply = Ret(8)

\* C13: with a learning rate in (0, 1], a call learn(s, a, r, _, done=True)
\* with a positive reward r that starts from Q(s, a) <= r leaves
\* old Q(s, a) <= new Q(s, a) <= r, the value never moving away from r nor
\* beyond it, and changes no other entry of the table.
C13_TerminalUpdateApproachesReward ==
    [][(/\ request'.op = "learn"
        /\ request'.done
        /\ request'.reward > 0
        /\ 0 < lr /\ lr <= Unit
        /\ Get(q_table, <<request'.state, request'.action>>) <= request'.reward)
       =>
       LET key == <<request'.state, request'.action>>
       IN  /\ Get(q_table, key) <= q_table'[key]
           /\ q_table'[key] <= request'.reward
           /\ DOMAIN q_table' = DOMAIN q_table \cup {key}
           /\ \A k \in DOMAIN q_table \ {key} : q_table'[k] = q_table[k]]_vars

\* C14: whatever learn calls came before, agent.save(f) followed by
\* agent.load(f) leaves the agent with the Q-table that was saved, equal for
\* every key, and with the saved learning rate, discount factor and epsilon.
C14_SaveLoadRoundTrip ==
    [][(/\ request.op = "save"
        /\ request'.op = "load"
        /\ request'.filename = request.filename)
       =>
       /\ q_table' = q_table
       /\ lr' = lr
       /\ gamma' = gamma
       /\ epsilon' = epsilon]_vars

\* C15: load(filename) or load_q_table(filename) on a file that is missing
\* or that pickle rejects does not raise and leaves the agent with an empty
\* Q-table and its hyperparameters as they were, whatever other files exist
\* and whatever the table held before.
C15_BadFileGivesEmptyTable ==
    [][(/\ request'.op \in {"load", "load_q_table"}
        /\ files[request'.filename].kind \in {"missing", "malformed"})
       =>
       /\ reply' = None
       /\ q_table' = EmptyTable
       /\ lr' = lr
       /\ gamma' = gamma
       /\ epsilon' = epsilon]_vars

\* The best Q-value of a state key over its empty cells, 0 when it has none
BestNext(q, key) ==
    LET empty == {c \in Cells : key[c + 1] \notin {"X", "O"}}
        values == {Get(q, <<key, c>>) : c \in empty}
    IN  IF empty = {} THEN 0
        ELSE CHOOSE v \in values : \A w \in values : w <= v

\* C19: a call learn(s, a, r, nextState, done=False) whose nextState is a
\* state key of Board.get_state_key takes as continuation value the maximum
\* of Q(nextState, a') over exactly the empty cells a' of nextState (0 only
\* when there is none), and sets Q(s, a) to Q + lr * (r + gamma * max - Q).
C19_ContinuationValueOverEmptyCells ==
    [][(request'.op = "learn" /\ ~request'.done)
       =>
       q_table'[<<request'.state, request'.action>>] =
           LET Q == Get(q_table, <<request'.state, request'.action>>)
           IN  FAdd(Q, FMul(lr, FSub(FAdd(request'.reward,
                                          FMul(gamma, BestNext(q_table, request'.next_state))),
                                     Q)))]_vars

\* C27: every (state, action) pair that play_game hands to the observer's
\* learn has the cell of the action empty in the recorded state key: the
\* state is the board as it was when the move was chosen.
C27_RecordedStateHasActionCellEmpty ==
    rl_observer =>
        \A i \in 1..Len(learned) :
            learned[i].state[learned[i].action + 1] \notin {"X", "O"}

\* C29: once an RLAgent is constructed, no operation on it (choose_action,
\* learn, save, save_q_table, load, load_q_table) changes its learning rate,
\* discount factor or epsilon.
C29_HyperparametersImmutable ==
    [][request'.op \in {"choose_action", "learn", "save", "save_q_table",
                        "load", "load_q_table"}
       => (lr' = lr /\ gamma' = gamma /\ epsilon' = epsilon)]_vars

\* The table that rates cell c of board b, and no other, above 0
Rates(b, c) == [k \in {<<get_state_key(b), c>>} |-> Unit]

C24_EngineNeverLoses == ~is_winner(game, "X")

\* C24 witness: the human had two in a line with the third cell empty, the
\* engine had no win of its own, and it replied on that third cell.
C24_Witness ==
    /\ answer.op = "get_ai_move"
    /\ get_winning_move(query.board, "O").move = None
    /\ get_winning_move(query.board, "X").move # None
    /\ answer.move = get_winning_move(query.board, "X").move
    /\ game[answer.move.val] = "O"

\* C25: on the empty board get_ai_move, with O moving first as the maximizing
\* side at depth 6, returns the centre (4) or a corner (0, 2, 6 or 8): never
\* an edge cell, never None.
C25_OpeningIsCentreOrCorner ==
    (answer.op = "get_ai_move" /\ Count(query.board, "X") = 0
                               /\ Count(query.board, "O") = 0) =>
        /\ answer.move \in {Ret(4), Ret(0), Ret(2), Ret(6), Ret(8)}
        /\ position_weights[answer.move.val] >= 3

\* C25 witness: get_ai_move was called on the empty board and returned the
\* centre.
C25_Witness ==
    /\ answer.op = "get_ai_move"
    /\ query.board = NewBoard
    /\ answer.move = Ret(4)

\* The outcome a root score stands for: a forced win of O, of X, or neither
Outcome(score) ==
    IF score >= 100 THEN "O wins" ELSE IF score <= 0 - 100 THEN "X wins" ELSE "neither"

Root(r) == <<r.score, r.move>>

\* C23: on every board reached by alternating play on which O is to move,
\* the search of get_ai_move, with the cutoff `beta <= alpha` and the moves
\* ordered by weight, returns the same root score and the same move as the
\* same search with the cutoff disabled.
C23_CutoffKeepsRootResult ==
    (answer.op = "make_move" /\ ToMove = "O") =>
        /\ Root(minimax(game, SearchDepth, 0 - Infinity, Infinity, TRUE)) =
           Root(minimax_without_cutoff(game, SearchDepth, 0 - Infinity,
                                       Infinity, TRUE))
        /\ get_ai_move(game).move =
           minimax_without_cutoff(game, SearchDepth, 0 - Infinity, Infinity,
                                  TRUE).move

\* C23 witness: O is to move after X's first move, no side can win at once,
\* and the full search of the eight replies names a move.
C23_Witness ==
    /\ answer.op = "make_move"
    /\ ToMove = "O"
    /\ Count(game, "X") = 1
    /\ get_ai_move(game).move # None
    /\ get_ai_move(game).move =
       minimax_without_cutoff(game, SearchDepth, 0 - Infinity, Infinity,
                              TRUE).move

\* C26: every game that play_game starts on an empty board with the shipped
\* providers that are no humans (play.get_tictoc_move, the RL providers)
\* returns a terminal outcome in the end, after at most 9 applied moves: no
\* side is asked again for ever while the board stays as it is.
C26_GameWithShippedProvidersReturns ==
    /\ [](Cardinality(Played(board)) <= 9)
    /\ <>(game_state # "NONE")

C30_AgentsKeepTheirFiles ==
    [][/\ \A f \in PairFiles :
            (writer[f] # "nobody" /\ request'.agent \in {"rl_player", "rl_observer"}
                /\ request'.agent # writer[f]) => files'[f] = files[f]
       /\ (/\ request'.op = "RLAgent"
           /\ files[PlayerFile].kind = "state"
           /\ files[ObserverFile].kind = "state"
           /\ files[PlayerFile].q_table # files[ObserverFile].q_table)
          => q_table' # files[ObserverFile].q_table]_vars

====
